---- MODULE Spec2Model ----
(***************************************************************************)
(* Batch audio converters of Convert32bitWavTo24or16Bit:                   *)
(*   caf_to_wav_gui.py          CAF -> WAV, Tk GUI, worker thread, cancel  *)
(*   wav_bit_depth_converter.py 32-bit WAV -> 24/16-bit, Tk GUI, worker    *)
(*   caf_to_wav32.py            CAF -> 32-bit WAV, command line            *)
(* One process runs one of the three programs (prog).  The file system is  *)
(* a map from paths to contents; a path is a record of its directory (a    *)
(* sequence of names), its stem and its extension.                         *)
(***************************************************************************)
EXTENDS Integers, Sequences, FiniteSets, TLC

\* ------------------------------------------------------------------ bounds
\* Clicks on the start/cancel button that start or cancel a run, in one
\* session.  Every start takes a click, so no more workers are ever started.
MaxClicks == 3
\* Configuration edits (browse, clear, checkbox) the user makes in one session.
MaxEdits == 1

\* ------------------------------------------------------------------- paths
\* None / "" : a directory that is not set (falsy in the code).
None == <<>>

SRC == <<"src">>
OUT == <<"out">>
GONE == <<"gone">>

Path(dir, stem, ext) == [dir |-> dir, stem |-> stem, ext |-> ext]

\* str.lower() on the extensions that occur.
Lower(ext) ==
    CASE ext = "CAF" -> "caf"
      [] ext = "WAV" -> "wav"
      [] OTHER -> ext

\* file.lower().endswith('.caf') / '.wav'
EndsWithLower(p, ext) == Lower(p.ext) = ext

\* A file lies in directory d or below it (os.walk(d) reaches it).
IsUnder(p, d) == Len(p.dir) >= Len(d) /\ SubSeq(p.dir, 1, Len(d)) = d

\* A file lies in directory d itself (os.listdir(d) lists it).
IsIn(p, d) == p.dir = d

RECURSIVE CommonLen(_, _)
CommonLen(a, b) ==
    IF a = <<>> \/ b = <<>> \/ Head(a) # Head(b) THEN 0
    ELSE 1 + CommonLen(Tail(a), Tail(b))

\* os.path.relpath(path, start), on the directory part: one ".." for each
\* component of start below the common prefix, then the rest of the path.
relpath(p, start) ==
    LET c == CommonLen(p.dir, start)
    IN [p EXCEPT !.dir = [k \in 1..(Len(start) - c) |-> ".."]
                            \o SubSeq(p.dir, c + 1, Len(p.dir))]

\* os.path.splitext(p)[0] + '.wav'
WithWavExt(p) == [p EXCEPT !.ext = "wav"]

\* os.path.join(base, rel)
join(base, rel) == [rel EXCEPT !.dir = base \o rel.dir]

\* The file a path names once the operating system has resolved its ".."
\* components.
RECURSIVE NormDir(_, _)
NormDir(rest, acc) ==
    IF rest = <<>> THEN acc
    ELSE IF Head(rest) = ".."
         THEN NormDir(Tail(rest),
                      IF acc = <<>> THEN acc ELSE SubSeq(acc, 1, Len(acc) - 1))
         ELSE NormDir(Tail(rest), Append(acc, Head(rest)))

Resolve(p) == [p EXCEPT !.dir = NormDir(p.dir, <<>>)]

\* File contents: what kind of audio the file holds, and whether this
\* process wrote it ("new") or it was there before ("old").
Content(kind, gen) == [kind |-> kind, gen |-> gen]

\* --------------------------------------------------------------- variables
VARIABLES
    prog,                \* which of the three programs this process runs
    fs,                  \* the file system: resolved path -> content
    edits,               \* configuration edits made so far (bounded by MaxEdits)
    clicks,              \* start/cancel clicks so far (bounded by MaxClicks)
    \* caf_to_wav_gui.py, CAFtoWAVConverter
    conversion_running,  \* self.conversion_running
    selected_directory,  \* self.selected_directory
    output_directory,    \* self.output_directory
    overwrite_var,       \* self.overwrite_var
    ffmpeg_available,    \* self.ffmpeg_available
    btn_text,            \* text of self.convert_btn
    last_box,            \* the message box the last start_conversion call showed
    wk,                  \* the conversion_thread workers, by start order
    \* wav_bit_depth_converter.py, WavConverterGUI
    folder_path,         \* self.folder_path
    include_subdirs,     \* self.include_subdirs
    convert_to_24bit,    \* self.convert_to_24bit
    convert_to_16bit,    \* self.convert_to_16bit
    is_processing,       \* self.is_processing
    wav_btn_state,       \* state of self.convert_btn
    wav_box,             \* the message box the last start_conversion call showed
    wv,                  \* the process_files workers, by start order
    \* caf_to_wav32.py
    cl                   \* main()'s locals

cafVars == <<conversion_running, selected_directory, output_directory,
             overwrite_var, ffmpeg_available, btn_text, last_box, wk>>
wavVars == <<folder_path, include_subdirs, convert_to_24bit, convert_to_16bit,
             is_processing, wav_btn_state, wav_box, wv>>
vars == <<prog, fs, edits, clicks, cafVars, wavVars, cl>>

Workers == 1..MaxClicks

\* ============================================================ CAF GUI ====
\* The directory tree the CAF programs scan, in os.walk order (a directory's
\* files before its subdirectories').  x.caf and x.CAF differ only in the
\* case of the extension.
CafWalkOrder ==
    << Path(SRC, "x", "caf"), Path(SRC, "x", "CAF"), Path(SRC \o <<"a">>, "x", "caf") >>

\* Source trees a run can meet: empty, two files in two directories, two
\* files whose names differ in the extension's case only.
CafTrees ==
    { {}, {CafWalkOrder[1], CafWalkOrder[3]}, {CafWalkOrder[1], CafWalkOrder[2]} }

\* Output files that may exist before the first run, beside the source and
\* in the output directory.
CafOldOutputs == {Path(SRC, "x", "wav"), Path(OUT, "x", "wav")}

MkFs(sources, srcKind, olds, oldKind) ==
    [p \in sources \cup olds |->
        IF p \in sources THEN Content(srcKind, "old") ELSE Content(oldKind, "old")]

\* The file systems a CAF GUI session starts from: each tree with no output
\* yet, and the two-directory tree after an earlier conversion of x.caf.
CafFileSystems ==
    { MkFs(t, "caf", {}, "wav") : t \in CafTrees }
    \cup { MkFs({CafWalkOrder[1], CafWalkOrder[3]}, "caf", CafOldOutputs, "wav") }

Exists(p) == Resolve(p) \in DOMAIN fs

\* A file written by this process at path p.
WriteFile(f, p, kind) ==
    [q \in DOMAIN f \cup {Resolve(p)} |->
        IF q = Resolve(p) THEN Content(kind, "new") ELSE f[q]]

NoPath == Path(<<>>, "", "")

IdleWorker ==
    [ pc |-> "idle", caf_files |-> <<>>, i |-> 0,
      converted_count |-> 0, skipped_count |-> 0, error_count |-> 0,
      wav_path |-> NoPath, flag |-> "",
      logged_cancelled |-> FALSE, logged_complete |-> FALSE, box |-> "none",
      \* history, not program state:
      attempted |-> 0,       \* loop iterations that passed the cancellation poll
      calls |-> 0,           \* ffmpeg subprocesses this worker has run
      cancel_req |-> FALSE ] \* the user clicked CANCEL before this worker's loop ended

Live(r) == r.pc \notin {"idle", "done"}

\* The worker has not left its loop yet (it is about to scan, or in the loop).
InRun(r) == r.pc \in {"start", "poll", "job", "launch", "ffmpeg"}

\* A run has been started in this session.  Edits of the configuration are
\* free before the first start and bounded by MaxEdits after it.
Started == (\E w \in Workers : wk[w].pc # "idle") \/ (\E w \in Workers : wv[w].pc # "idle")

EditAllowed == ~Started \/ edits < MaxEdits

EditCounted == IF Started THEN edits + 1 ELSE edits

\* find_caf_files: every file under the directory whose lower-cased name
\* ends in .caf, in os.walk order.  A directory that does not exist yields
\* nothing (os.walk ignores the error).
find_caf_files_Reversed(directory) ==
    LET Hit(p) == p \in DOMAIN fs /\ IsUnder(p, directory) /\ EndsWithLower(p, "caf")
        f == SelectSeq(CafWalkOrder, Hit)
    IN [k \in 1..Len(f) |-> f[Len(f) + 1 - k]]

find_caf_files(directory) ==
    LET Hit(p) == p \in DOMAIN fs /\ IsUnder(p, directory) /\ EndsWithLower(p, "caf")
    IN SelectSeq(CafWalkOrder, Hit)

\* convert_caf_to_wav, lines 262-269: the destination of one job.
PlanWavPath_Flat(caf_path, output_base_dir) ==
    IF output_base_dir # None
    THEN join(output_base_dir, WithWavExt([caf_path EXCEPT !.dir = <<>>]))
    ELSE WithWavExt(caf_path)

PlanWavPath(caf_path, output_base_dir) ==
    IF output_base_dir # None
    THEN join(output_base_dir, WithWavExt(relpath(caf_path, selected_directory)))
    ELSE WithWavExt(caf_path)

\* convert_caf_to_wav, line 272: the pre-flight check.
PreflightSkips_NoCheck(wav_path) == FALSE

PreflightSkips(wav_path) == Exists(wav_path) /\ ~overwrite_var

\* conversion_thread, lines 337-350: which counter a status increments.
Classify_SkipUncounted(status) ==
    IF status = "success" THEN "converted"
    ELSE IF status = "skipped (already exists)" THEN "none"
    ELSE "error"

Classify(status) ==
    IF status = "success" THEN "converted"
    ELSE IF status = "skipped (already exists)" THEN "skipped"  \* startswith("skipped")
    ELSE "error"

\* The end of one loop iteration: the counter, the progress update, the next
\* index.  The iteration's locals (wav_path, the command's flag) are dead.
EndJob_AbortOnError(r, status) ==
    LET k == Classify(status)
    IN [r EXCEPT !.wav_path = NoPath,
                 !.flag = "",
                 !.converted_count = @ + (IF k = "converted" THEN 1 ELSE 0),
                 !.skipped_count = @ + (IF k = "skipped" THEN 1 ELSE 0),
                 !.error_count = @ + (IF k = "error" THEN 1 ELSE 0),
                 !.i = @ + 1,
                 !.pc = IF k = "error" THEN "finally" ELSE "poll"]

EndJob(r, status) ==
    LET k == Classify(status)
    IN [r EXCEPT !.wav_path = NoPath,
                 !.flag = "",
                 !.converted_count = @ + (IF k = "converted" THEN 1 ELSE 0),
                 !.skipped_count = @ + (IF k = "skipped" THEN 1 ELSE 0),
                 !.error_count = @ + (IF k = "error" THEN 1 ELSE 0),
                 !.i = @ + 1,
                 !.pc = "poll"]

\* The for loop has no file left.
LoopExhausted_OffByOne(r) == r.i + 1 >= Len(r.caf_files)

LoopExhausted(r) == r.i = Len(r.caf_files)

\* conversion_thread, lines 297-300: what an empty scan shows.
NoFilesBox_Error == "error_nofiles"

NoFilesBox == "info_nofiles"

\* What the ffmpeg subprocess can do with a destination and its -y/-n flag:
\* with -n it refuses an existing destination; otherwise it succeeds, fails,
\* or cannot be run at all.
FfmpegResults_IgnoresN(wav_path, flag) == {"ok", "fail", "raise"}

FfmpegResults(wav_path, flag) ==
    IF flag = "-n" /\ Exists(wav_path) THEN {"exists"} ELSE {"ok", "fail", "raise"}

\* convert_with_ffmpeg, lines 241-257: the status for a result.
FfmpegStatus_ExistsIsError(res) ==
    CASE res = "ok" -> "success"
      [] res = "exists" -> "FFmpeg error"
      [] res = "fail" -> "FFmpeg error"
      [] OTHER -> "Exception"

FfmpegStatus(res) ==
    CASE res = "ok" -> "success"
      [] res = "exists" -> "skipped (already exists)"
      [] res = "fail" -> "FFmpeg error"
      [] OTHER -> "Exception"

\* ---- start_conversion (the button's command) ----
CafStartClick ==
    /\ prog = "caf_gui"
    /\ IF ~(selected_directory # None)
       THEN /\ last_box' = "warn_no_directory"
            /\ UNCHANGED <<conversion_running, btn_text, wk, clicks>>
       ELSE IF conversion_running
       THEN /\ clicks < MaxClicks
            /\ clicks' = clicks + 1
            /\ conversion_running' = FALSE
            /\ btn_text' = "START CONVERSION"
            /\ wk' = [w \in Workers |->
                        IF InRun(wk[w]) THEN [wk[w] EXCEPT !.cancel_req = TRUE] ELSE wk[w]]
            /\ last_box' = "none"
       ELSE /\ clicks < MaxClicks
            /\ clicks' = clicks + 1
            /\ \E w \in Workers :
                 /\ wk[w].pc = "idle"
                 /\ \A v \in Workers : v < w => wk[v].pc # "idle"
                 /\ wk' = [wk EXCEPT ![w] = [IdleWorker EXCEPT !.pc = "start"]]
            /\ conversion_running' = TRUE
            /\ btn_text' = "CANCEL"
            /\ last_box' = "none"
    /\ UNCHANGED <<prog, fs, edits, selected_directory, output_directory,
                   overwrite_var, ffmpeg_available, wavVars, cl>>

\* ---- browse_directory, browse_output_directory, clear_output_directory,
\*      the overwrite checkbox ----
BrowseDirectory ==
    /\ prog = "caf_gui"
    /\ EditAllowed
    /\ \E d \in {SRC, GONE} :
         /\ d # selected_directory
         /\ selected_directory' = d
    /\ edits' = EditCounted
    /\ UNCHANGED <<prog, fs, clicks, conversion_running, output_directory, overwrite_var,
                   ffmpeg_available, btn_text, last_box, wk, wavVars, cl>>

BrowseOutputDirectory ==
    /\ prog = "caf_gui"
    /\ EditAllowed
    /\ output_directory # OUT
    /\ output_directory' = OUT
    /\ edits' = EditCounted
    /\ UNCHANGED <<prog, fs, clicks, conversion_running, selected_directory, overwrite_var,
                   ffmpeg_available, btn_text, last_box, wk, wavVars, cl>>

ClearOutputDirectory ==
    /\ prog = "caf_gui"
    /\ EditAllowed
    /\ output_directory # None
    /\ output_directory' = None
    /\ edits' = EditCounted
    /\ UNCHANGED <<prog, fs, clicks, conversion_running, selected_directory, overwrite_var,
                   ffmpeg_available, btn_text, last_box, wk, wavVars, cl>>

ToggleOverwrite ==
    /\ prog = "caf_gui"
    /\ EditAllowed
    /\ overwrite_var' = ~overwrite_var
    /\ edits' = EditCounted
    /\ UNCHANGED <<prog, fs, clicks, conversion_running, selected_directory, output_directory,
                   ffmpeg_available, btn_text, last_box, wk, wavVars, cl>>

\* ---- conversion_thread ----
CafWorkerFrame ==
    UNCHANGED <<prog, edits, clicks, selected_directory, output_directory, overwrite_var,
                ffmpeg_available, last_box, wavVars, cl>>

\* Lines 287-320: the FFmpeg check, the scan, the loop's set-up.
WScan(w) ==
    /\ prog = "caf_gui"
    /\ wk[w].pc = "start"
    /\ LET r == wk[w]
           files == find_caf_files(selected_directory)
       IN wk' = [wk EXCEPT ![w] =
             IF ~ffmpeg_available
             THEN [r EXCEPT !.box = "error_ffmpeg_required", !.pc = "finally"]
             ELSE IF files = <<>>
             THEN [r EXCEPT !.box = NoFilesBox, !.pc = "finally"]
             ELSE [r EXCEPT !.caf_files = files, !.pc = "poll"]]
    /\ UNCHANGED <<fs, conversion_running, btn_text>>
    /\ CafWorkerFrame

\* Lines 360-372: the final summary (log, progress label, message box).  The
\* worker then waits in the message box, before its finally block.
Summary(r) ==
    [r EXCEPT !.logged_complete = TRUE,
              !.box = IF r.error_count > 0 THEN "warn_complete_with_errors"
                      ELSE "info_complete",
              !.pc = "finally"]

\* Lines 323-326: the for loop's head and the cancellation poll; when the
\* loop ends, the final summary.
WPoll(w) ==
    /\ prog = "caf_gui"
    /\ wk[w].pc = "poll"
    /\ LET r == wk[w]
       IN wk' = [wk EXCEPT ![w] =
             IF LoopExhausted(r) THEN Summary(r)
             ELSE IF ~conversion_running
             THEN Summary([r EXCEPT !.logged_cancelled = TRUE])
             ELSE [r EXCEPT !.attempted = @ + 1, !.pc = "job"]]
    /\ UNCHANGED <<fs, conversion_running, btn_text>>
    /\ CafWorkerFrame

\* Lines 328-335 and convert_caf_to_wav, lines 262-277: the destination, the
\* pre-flight check, the FFmpeg check.
WJob(w) ==
    /\ prog = "caf_gui"
    /\ wk[w].pc = "job"
    /\ LET r == wk[w]
           caf_path == r.caf_files[r.i + 1]
           wav_path == PlanWavPath(caf_path, output_directory)
       IN wk' = [wk EXCEPT ![w] =
             IF PreflightSkips(wav_path)
             THEN EndJob(r, "skipped (already exists)")
             ELSE IF ~ffmpeg_available
             THEN EndJob(r, "error: FFmpeg not available")
             ELSE [r EXCEPT !.wav_path = wav_path, !.pc = "launch"]]
    /\ UNCHANGED <<fs, conversion_running, btn_text>>
    /\ CafWorkerFrame

\* Lines 328-331, a fault: the loop body's own statements ahead of the job
\* call are under no try of their own.  os.path.relpath raises ValueError
\* (on Windows, when self.selected_directory now names another drive), or a
\* Tk call made from the worker thread raises.  The exception leaves the
\* loop for the handler of lines 374-378.
WJobRaises(w) ==
    /\ prog = "caf_gui"
    /\ wk[w].pc = "job"
    /\ wk' = [wk EXCEPT ![w] = [@ EXCEPT !.box = "error_exception", !.pc = "finally"]]
    /\ UNCHANGED <<fs, conversion_running, btn_text>>
    /\ CafWorkerFrame

\* convert_caf_to_wav, lines 261-282, a fault: a statement inside its try
\* raises (os.makedirs cannot create the directory); the handler of lines
\* 281-282 returns an error status.
WPlanRaises(w) ==
    /\ prog = "caf_gui"
    /\ wk[w].pc = "job"
    /\ output_directory # None
    /\ wk' = [wk EXCEPT ![w] = EndJob(@, "error: exception")]
    /\ UNCHANGED <<fs, conversion_running, btn_text>>
    /\ CafWorkerFrame

\* convert_with_ffmpeg, lines 209-239: the command line (-y or -n from the
\* checkbox as it is now) and the subprocess's start.
WLaunch(w) ==
    /\ prog = "caf_gui"
    /\ wk[w].pc = "launch"
    /\ wk' = [wk EXCEPT ![w] =
                [@ EXCEPT !.flag = IF overwrite_var THEN "-y" ELSE "-n",
                          !.calls = @ + 1, !.pc = "ffmpeg"]]
    /\ UNCHANGED <<fs, conversion_running, btn_text>>
    /\ CafWorkerFrame

\* The subprocess ends; convert_with_ffmpeg, lines 241-257, and the loop
\* body's end, lines 337-358.
WFfmpegReturn(w) ==
    /\ prog = "caf_gui"
    /\ wk[w].pc = "ffmpeg"
    /\ \E res \in FfmpegResults(wk[w].wav_path, wk[w].flag) :
         /\ fs' = IF res = "ok" THEN WriteFile(fs, wk[w].wav_path, "wav") ELSE fs
         /\ wk' = [wk EXCEPT ![w] = EndJob(@, FfmpegStatus(res))]
    /\ UNCHANGED <<conversion_running, btn_text>>
    /\ CafWorkerFrame

\* Lines 380-382: the finally block; the thread ends and its locals with it.
WFinally_FlagStays(w) ==
    /\ prog = "caf_gui"
    /\ wk[w].pc = "finally"
    /\ btn_text' = "START CONVERSION"
    /\ wk' = [wk EXCEPT ![w] = [IdleWorker EXCEPT !.pc = "done"]]
    /\ UNCHANGED <<fs, conversion_running>>
    /\ CafWorkerFrame

WFinally(w) ==
    /\ prog = "caf_gui"
    /\ wk[w].pc = "finally"
    /\ conversion_running' = FALSE
    /\ btn_text' = "START CONVERSION"
    /\ wk' = [wk EXCEPT ![w] = [IdleWorker EXCEPT !.pc = "done"]]
    /\ UNCHANGED fs
    /\ CafWorkerFrame

CafInit ==
    /\ conversion_running = FALSE
    /\ selected_directory = None
    /\ output_directory = None
    /\ overwrite_var = FALSE
    /\ ffmpeg_available \in BOOLEAN
    /\ btn_text = "START CONVERSION"
    /\ last_box = "none"
    /\ wk = [w \in Workers |-> IdleWorker]

\* ==================================================== WAV bit-depth GUI ====
\* The .wav files a scanned folder may hold, in os.walk order.
WavS == Path(SRC, "s", "wav")
WavT == Path(SRC, "t", "wav")
WavS24 == Path(SRC \o <<"24bit">>, "s", "wav")

WavWalkOrder == << WavS, WavT, WavS24 >>

\* Folders a run can meet: no .wav file; no 32-bit file; one 32-bit file;
\* a 32-bit and a 16-bit file; a 32-bit file whose 24-bit output exists; a
\* 32-bit file beside a 32-bit file in a directory named 24bit; a 32-bit
\* integer file and an unreadable one; a file of an unknown subtype and a
\* 32-bit file.
WavTrees ==
    { <<>>,
      (WavS :> Content("DOUBLE", "old")) @@ (WavT :> Content("FLOAT", "old")),
      (WavT :> Content("PCM_16", "old")),
      (WavS :> Content("FLOAT", "old")),
      (WavS :> Content("FLOAT", "old")) @@ (WavT :> Content("PCM_16", "old")),
      (WavS :> Content("FLOAT", "old")) @@ (WavS24 :> Content("PCM_24", "old")),
      (WavS :> Content("FLOAT", "old")) @@ (WavS24 :> Content("FLOAT", "old")),
      (WavS :> Content("PCM_32", "old")) @@ (WavT :> Content("corrupt", "old")) }

\* os.path.exists(folder)
DirExists(d) == d # None /\ d # GONE

IdleWavWorker ==
    [ pc |-> "idle", folder |-> None, files_32bit |-> <<>>, j |-> 0,
      total_conversions |-> 0, current_conversion |-> 0, box |-> "none",
      \* history, not program state:
      scanned |-> "none",   \* what the scan found: none, no_wav, no_32bit, some
      failed |-> 0 ]        \* conversions that returned False

\* find_wav_files
find_wav_files(folder, subdirs) ==
    LET Hit(p) == /\ p \in DOMAIN fs
                  /\ IF subdirs THEN IsUnder(p, folder) ELSE IsIn(p, folder)
                  /\ EndsWithLower(p, "wav")
    IN SelectSeq(WavWalkOrder, Hit)

\* get_bit_depth, on the subtype soundfile reports ("corrupt": sf.info
\* raises, the except branch returns 0; "DOUBLE": a subtype the if chain
\* does not know).
get_bit_depth_UnknownAs32(kind) ==
    CASE kind \in {"PCM_32", "FLOAT"} -> 32
      [] kind = "PCM_24" -> 24
      [] kind = "PCM_16" -> 16
      [] kind = "PCM_8" -> 8
      [] OTHER -> 32

get_bit_depth(kind) ==
    CASE kind = "corrupt" -> 0
      [] kind \in {"PCM_32", "FLOAT"} -> 32
      [] kind = "PCM_24" -> 24
      [] kind = "PCM_16" -> 16
      [] kind = "PCM_8" -> 8
      [] OTHER -> 0

\* process_files, lines 215-220
Filter32(wav_files) ==
    LET Is32(p) == get_bit_depth(fs[p].kind) = 32
    IN SelectSeq(wav_files, Is32)

\* process_files, lines 248-249 and 264-265: the destination of one job.
WavOutputPath(wav_file, sub) == [wav_file EXCEPT !.dir = @ \o <<sub>>]

\* process_files, lines 210-213 and 225-228: what an empty scan shows.
WavNoFilesBox == "info_no_files"

\* convert_file: reads the input and writes the output, whatever is at the
\* output path; an exception (the read or the write fails) gives False.
ConvertFile(v, wav_file, sub, kind) ==
    \E ok \in BOOLEAN :
        /\ fs' = IF ok THEN WriteFile(fs, WavOutputPath(wav_file, sub), kind) ELSE fs
        /\ wv' = [wv EXCEPT ![v] =
                    [@ EXCEPT !.current_conversion = @ + 1,
                              !.failed = @ + (IF ok THEN 0 ELSE 1),
                              !.pc = IF sub = "24bit" THEN "t16"
                                     ELSE IF wv[v].j + 1 = Len(wv[v].files_32bit) THEN "summary"
                                     ELSE "t24",
                              !.j = IF sub = "24bit" THEN @ ELSE @ + 1]]

\* ---- validate_inputs ----
validate_inputs ==
    IF ~(folder_path # None) THEN "error_select_folder"
    ELSE IF ~DirExists(folder_path) THEN "error_folder_missing"
    ELSE IF ~convert_to_24bit /\ ~convert_to_16bit THEN "error_select_depth"
    ELSE "ok"

\* start_conversion, lines 296-297: the guard on the running flag.
AlreadyProcessing_Never == FALSE

AlreadyProcessing == is_processing

\* ---- start_conversion ----
\* The button's command.  The button is disabled during a run, and a request
\* that comes all the same (a call while is_processing is set) meets the
\* guard of line 296.
WavStartClick ==
    /\ prog = "wav_gui"
    /\ IF AlreadyProcessing
       THEN /\ clicks < MaxClicks
            /\ clicks' = clicks + 1
            /\ UNCHANGED <<is_processing, wav_btn_state, wav_box, wv>>
       ELSE IF validate_inputs # "ok"
       THEN /\ wav_box' = validate_inputs
            /\ UNCHANGED <<is_processing, wav_btn_state, wv, clicks>>
       ELSE /\ clicks < MaxClicks
            /\ clicks' = clicks + 1
            /\ \E v \in Workers :
                 /\ wv[v].pc = "idle"
                 /\ \A u \in Workers : u < v => wv[u].pc # "idle"
                 /\ wv' = [wv EXCEPT ![v] = [IdleWavWorker EXCEPT !.pc = "start"]]
            /\ is_processing' = TRUE
            /\ wav_btn_state' = "disabled"
            /\ wav_box' = "none"
    /\ UNCHANGED <<prog, fs, edits, folder_path, include_subdirs, convert_to_24bit,
                   convert_to_16bit, cafVars, cl>>

\* ---- browse_folder (or typing in the entry), the three checkboxes ----
BrowseFolder ==
    /\ prog = "wav_gui"
    /\ EditAllowed
    /\ \E d \in {SRC, GONE} :
         /\ d # folder_path
         /\ folder_path' = d
    /\ edits' = EditCounted
    /\ UNCHANGED <<prog, fs, clicks, include_subdirs, convert_to_24bit, convert_to_16bit,
                   is_processing, wav_btn_state, wav_box, wv, cafVars, cl>>

ToggleSubdirs ==
    /\ prog = "wav_gui"
    /\ EditAllowed
    /\ include_subdirs' = ~include_subdirs
    /\ edits' = EditCounted
    /\ UNCHANGED <<prog, fs, clicks, folder_path, convert_to_24bit, convert_to_16bit,
                   is_processing, wav_btn_state, wav_box, wv, cafVars, cl>>

Toggle24 ==
    /\ prog = "wav_gui"
    /\ EditAllowed
    /\ convert_to_24bit' = ~convert_to_24bit
    /\ edits' = EditCounted
    /\ UNCHANGED <<prog, fs, clicks, folder_path, include_subdirs, convert_to_16bit,
                   is_processing, wav_btn_state, wav_box, wv, cafVars, cl>>

Toggle16 ==
    /\ prog = "wav_gui"
    /\ EditAllowed
    /\ convert_to_16bit' = ~convert_to_16bit
    /\ edits' = EditCounted
    /\ UNCHANGED <<prog, fs, clicks, folder_path, include_subdirs, convert_to_24bit,
                   is_processing, wav_btn_state, wav_box, wv, cafVars, cl>>

\* ---- process_files ----
WavWorkerFrame ==
    UNCHANGED <<prog, edits, clicks, folder_path, include_subdirs, convert_to_24bit,
                convert_to_16bit, wav_box, cafVars, cl>>

\* Lines 199-237: the scan, the 32-bit filter, the total.  os.listdir raises
\* on a folder that is gone (the outer except shows the error); os.walk
\* yields nothing.
VScan(v) ==
    /\ prog = "wav_gui"
    /\ wv[v].pc = "start"
    /\ LET r == [wv[v] EXCEPT !.folder = folder_path]
           wav_files == find_wav_files(folder_path, include_subdirs)
           files_32bit == Filter32(wav_files)
           targets == (IF convert_to_24bit THEN 1 ELSE 0) + (IF convert_to_16bit THEN 1 ELSE 0)
       IN wv' = [wv EXCEPT ![v] =
             IF ~include_subdirs /\ ~DirExists(folder_path)
             THEN [r EXCEPT !.box = "error_exception", !.pc = "finally"]
             ELSE IF wav_files = <<>>
             THEN [r EXCEPT !.box = WavNoFilesBox, !.scanned = "no_wav", !.pc = "finally"]
             ELSE IF files_32bit = <<>>
             THEN [r EXCEPT !.box = WavNoFilesBox, !.scanned = "no_32bit", !.pc = "finally"]
             ELSE [r EXCEPT !.files_32bit = files_32bit, !.scanned = "some",
                            !.total_conversions = Len(files_32bit) * targets,
                            !.pc = "t24"]]
    /\ UNCHANGED <<fs, is_processing, wav_btn_state>>
    /\ WavWorkerFrame

\* Lines 247-260: the 24-bit conversion of the current file, if the checkbox
\* is ticked now.
V24(v) ==
    /\ prog = "wav_gui"
    /\ wv[v].pc = "t24"
    /\ IF convert_to_24bit
       THEN ConvertFile(v, wv[v].files_32bit[wv[v].j + 1], "24bit", "PCM_24")
       ELSE /\ wv' = [wv EXCEPT ![v].pc = "t16"]
            /\ UNCHANGED fs
    /\ UNCHANGED <<is_processing, wav_btn_state>>
    /\ WavWorkerFrame

\* Lines 263-276: the 16-bit conversion of the current file, if the checkbox
\* is ticked now; then the next file.
V16(v) ==
    /\ prog = "wav_gui"
    /\ wv[v].pc = "t16"
    /\ IF convert_to_16bit
       THEN ConvertFile(v, wv[v].files_32bit[wv[v].j + 1], "16bit", "PCM_16")
       ELSE /\ wv' = [wv EXCEPT ![v] =
                        [@ EXCEPT !.pc = IF wv[v].j + 1 = Len(wv[v].files_32bit)
                                         THEN "summary" ELSE "t24",
                                  !.j = @ + 1]]
            /\ UNCHANGED fs
    /\ UNCHANGED <<is_processing, wav_btn_state>>
    /\ WavWorkerFrame

\* Lines 278-284: the final summary.
VSummary(v) ==
    /\ prog = "wav_gui"
    /\ wv[v].pc = "summary"
    /\ wv' = [wv EXCEPT ![v] = [@ EXCEPT !.box = "info_success", !.pc = "finally"]]
    /\ UNCHANGED <<fs, is_processing, wav_btn_state>>
    /\ WavWorkerFrame

\* Lines 290-292: the finally block; the thread ends and its locals with it.
VFinally(v) ==
    /\ prog = "wav_gui"
    /\ wv[v].pc = "finally"
    /\ is_processing' = FALSE
    /\ wav_btn_state' = "normal"
    /\ wv' = [wv EXCEPT ![v] = [IdleWavWorker EXCEPT !.pc = "done"]]
    /\ UNCHANGED fs
    /\ WavWorkerFrame

WavInit ==
    /\ folder_path = None
    /\ include_subdirs = FALSE
    /\ convert_to_24bit = FALSE
    /\ convert_to_16bit = FALSE
    /\ is_processing = FALSE
    /\ wav_btn_state = "normal"
    /\ wav_box = "none"
    /\ wv = [v \in Workers |-> IdleWavWorker]

\* ===================================================== command-line CAF ====
\* Output files of an earlier command-line run.
CliOldOutputs == { {}, {Path(SRC \o <<"32bit_wav">>, "x", "wav")} }

IdleCli ==
    [ pc |-> "input", folder |-> None, caf_files |-> <<>>, i |-> 0,
      nt |-> FALSE,         \* pathlib on Windows: glob patterns ignore case
      printed |-> "none",
      \* history, not program state:
      calls |-> 0 ]         \* ffmpeg subprocesses run

\* root.rglob("*.caf"): case-sensitive on POSIX, not on Windows.
rglob_caf(root, nt) ==
    LET Hit(p) == /\ p \in DOMAIN fs
                  /\ IsUnder(p, root)
                  /\ IF nt THEN EndsWithLower(p, "caf") ELSE p.ext = "caf"
    IN SelectSeq(CafWalkOrder, Hit)

\* main, lines 41-42: the destination of one job.
CliOutPath(caf) == [caf EXCEPT !.dir = @ \o <<"32bit_wav">>, !.ext = "wav"]

CliFrame == UNCHANGED <<prog, edits, clicks, cafVars, wavVars>>

\* main, lines 30-38: the folder, its check, the scan.
CliScan ==
    /\ prog = "cli"
    /\ cl.pc = "input"
    /\ \E folder \in {SRC, GONE} :
         cl' = IF ~DirExists(folder)
               THEN [cl EXCEPT !.folder = folder, !.printed = "Folder does not exist.",
                               !.pc = "done"]
               ELSE [cl EXCEPT !.folder = folder, !.caf_files = rglob_caf(folder, cl.nt),
                               !.printed = "Found", !.pc = "loop"]
    /\ UNCHANGED fs
    /\ CliFrame

\* main, lines 40-43, and convert_caf_to_wav: ffmpeg -y on the next file.
\* A failing ffmpeg (CalledProcessError) is caught; an ffmpeg that cannot be
\* run raises out of main.
CliConvert ==
    /\ prog = "cli"
    /\ cl.pc = "loop"
    /\ cl.i < Len(cl.caf_files)
    /\ \E res \in {"ok", "fail", "raise"} :
         /\ fs' = IF res = "ok"
                  THEN WriteFile(fs, CliOutPath(cl.caf_files[cl.i + 1]), "FLOAT")
                  ELSE fs
         /\ cl' = [cl EXCEPT !.calls = @ + 1,
                             !.i = @ + 1,
                             !.pc = IF res = "raise" THEN "crashed" ELSE "loop"]
    /\ CliFrame

\* main, line 45.
CliDone ==
    /\ prog = "cli"
    /\ cl.pc = "loop"
    /\ cl.i = Len(cl.caf_files)
    /\ cl' = [cl EXCEPT !.printed = "Conversion complete!", !.pc = "done"]
    /\ UNCHANGED fs
    /\ CliFrame

\* ============================================================ the system ====
Init ==
    /\ prog \in {"caf_gui", "wav_gui", "cli"}
    /\ edits = 0
    /\ clicks = 0
    /\ CafInit
    /\ WavInit
    /\ \/ /\ prog = "caf_gui"
          /\ fs \in CafFileSystems
          /\ cl = IdleCli
       \/ /\ prog = "wav_gui"
          /\ ffmpeg_available = TRUE
          /\ fs \in WavTrees
          /\ cl = IdleCli
       \/ /\ prog = "cli"
          /\ ffmpeg_available = TRUE
          /\ \E t \in CafTrees, o \in CliOldOutputs : fs = MkFs(t, "caf", o, "wav")
          /\ \E nt \in BOOLEAN : cl = [IdleCli EXCEPT !.nt = nt]

Next ==
    \/ CafStartClick
    \/ BrowseDirectory
    \/ BrowseOutputDirectory
    \/ ClearOutputDirectory
    \/ ToggleOverwrite
    \/ \E w \in Workers : WScan(w)
    \/ \E w \in Workers : WPoll(w)
    \/ \E w \in Workers : WJob(w)
    \/ \E w \in Workers : WLaunch(w)
    \/ \E w \in Workers : WFfmpegReturn(w)
    \/ \E w \in Workers : WFinally(w)
    \/ WavStartClick
    \/ BrowseFolder
    \/ ToggleSubdirs
    \/ Toggle24
    \/ Toggle16
    \/ \E v \in Workers : VScan(v)
    \/ \E v \in Workers : V24(v)
    \/ \E v \in Workers : V16(v)
    \/ \E v \in Workers : VSummary(v)
    \/ \E v \in Workers : VFinally(v)
    \/ CliScan
    \/ CliConvert
    \/ CliDone

Spec == Init /\ [][Next]_vars

\* The system with the faults of the job's own statements.
NextFault ==
    \/ Next
    \/ \E w \in Workers : WJobRaises(w)
    \/ \E w \in Workers : WPlanRaises(w)

FaultSpec == Init /\ [][NextFault]_vars

\* The next statement of one worker thread, whichever it is.
CafWorkerStep(w) ==
    \/ WScan(w) \/ WPoll(w) \/ WJob(w) \/ WJobRaises(w) \/ WPlanRaises(w)
    \/ WLaunch(w) \/ WFfmpegReturn(w) \/ WFinally(w)

WavWorkerStep(v) ==
    VScan(v) \/ V24(v) \/ V16(v) \/ VSummary(v) \/ VFinally(v)

\* The system with faults, where every started thread keeps being scheduled:
\* its subprocess returns, its message box is dismissed, its next statement
\* is executed.
LiveSpec ==
    /\ Init
    /\ [][NextFault]_vars
    /\ \A w \in Workers : WF_vars(CafWorkerStep(w))
    /\ \A v \in Workers : WF_vars(WavWorkerStep(v))

\* ================================================================ claims ====
Counted(r) == r.converted_count + r.skipped_count + r.error_count

\* The file the worker's current loop iteration converts.
CurrentCaf(r) == r.caf_files[r.i + 1]

\* ---------------------------------------------------------------------------
\* C1: in conversion_thread, at every job boundary (the loop's head) and
\* when the final summary has been emitted, converted_count + skipped_count
\* + error_count is the number of loop iterations that passed the
\* cancellation poll.
C1_CountsEqualAttempted ==
    \A w \in Workers :
        wk[w].pc \in {"poll", "finally"} => Counted(wk[w]) = wk[w].attempted

\* A cancelled run with one job attempted, which was skipped.
C1_Witness ==
    \E w \in Workers :
        /\ wk[w].pc = "finally"
        /\ wk[w].logged_cancelled
        /\ wk[w].attempted = 1
        /\ wk[w].skipped_count = 1

C3_PreflightSkipWithoutEncoder ==
    [][ \A w \in Workers :
          ( /\ wk[w].pc = "job"
            /\ wk'[w].pc # "job"
            /\ Exists(PlanWavPath(CurrentCaf(wk[w]), output_directory))
            /\ ~overwrite_var )
          => /\ wk'[w].pc = "poll"
             /\ wk'[w].i = wk[w].i + 1
             /\ wk'[w].skipped_count = wk[w].skipped_count + 1
             /\ wk'[w].converted_count = wk[w].converted_count
             /\ wk'[w].error_count = wk[w].error_count
             /\ wk'[w].calls = wk[w].calls
             /\ fs' = fs ]_vars

\* A job was skipped and the worker has run no ffmpeg subprocess at all.
C3_Witness ==
    \E w \in Workers :
        /\ wk[w].pc = "poll"
        /\ wk[w].i = 1
        /\ wk[w].skipped_count = 1
        /\ wk[w].calls = 0
        /\ ~overwrite_var

\* ---------------------------------------------------------------------------
\* C4 as stated: in every program, a file that exists keeps its content
\* unless the user has enabled overwriting (only the CAF GUI has the option:
\* the change is then made by an ffmpeg run with -y).
C4_ExistingFileKeptUnlessOverwriteEnabled ==
    [][ \A p \in DOMAIN fs :
          (p \in DOMAIN fs' /\ fs'[p] # fs[p]) =>
             /\ prog = "caf_gui"
             /\ \E w \in Workers :
                   /\ wk[w].pc = "ffmpeg"
                   /\ wk[w].flag = "-y"
                   /\ Resolve(wk[w].wav_path) = p ]_vars

\* ---------------------------------------------------------------------------
\* C5 as stated: once cancellation has been requested during a worker's run,
\* that worker attempts no further job.
C5_NoAttemptAfterCancelRequest ==
    [][ \A w \in Workers :
          (wk[w].cancel_req /\ wk'[w].pc # "done") =>
              wk'[w].attempted = wk[w].attempted ]_vars

\* ---------------------------------------------------------------------------
\* C6 as stated: a run whose loop the cancellation poll stopped does not
\* report itself as complete.
C6_CancelledIsNotCompleted ==
    \A w \in Workers :
        wk[w].logged_cancelled =>
            /\ ~wk[w].logged_complete
            /\ wk[w].box \notin {"info_complete", "warn_complete_with_errors"}

\* ---------------------------------------------------------------------------
\* C7 as stated: at most one worker is in the conversion loop and at most one
\* ffmpeg subprocess is in flight.
C7_OneWorkerOneEncoder ==
    /\ Cardinality({w \in Workers : wk[w].pc \in {"poll", "job", "launch", "ffmpeg"}}) <= 1
    /\ Cardinality({w \in Workers : wk[w].pc = "ffmpeg"}) <= 1

\* ---------------------------------------------------------------------------
\* C8 as stated: once a run has been cancelled and a later run started, the
\* cancelled run's worker attempts none of its remaining jobs.
C8_CancelledRunNeverResumed ==
    [][ \A w \in Workers :
          ( /\ wk[w].cancel_req
            /\ \E v \in Workers : v > w /\ wk[v].pc # "idle"
            /\ wk'[w].pc # "done" )
          => /\ wk'[w].attempted = wk[w].attempted
             /\ wk'[w].pc \notin {"job", "launch"} ]_vars

\* ---------------------------------------------------------------------------
\* C9 as stated: a start request (a click while no run is going) with no
\* source directory, no target, or a source directory that does not exist
\* changes nothing in either GUI: no worker, the running flag still false.
C9_BadConfigurationRejected ==
    [][ /\ ( /\ CafStartClick
             /\ ~conversion_running
             /\ (selected_directory = None \/ ~DirExists(selected_directory)) )
           => UNCHANGED <<conversion_running, btn_text, wk, fs>>
        /\ ( /\ WavStartClick
             /\ ~is_processing
             /\ \/ folder_path = None
                \/ ~DirExists(folder_path)
                \/ (~convert_to_24bit /\ ~convert_to_16bit) )
           => UNCHANGED <<is_processing, wav_btn_state, wv, fs>> ]_vars

\* ---------------------------------------------------------------------------
\* C10: a scan that finds no input (no .caf file; no .wav file; no 32-bit
\* .wav file) takes the worker straight to its end with an information box,
\* no job attempted, no conversion made and no file changed; and the
\* worker's finally block leaves the runner idle.
InfoBoxes == {"info_nofiles", "info_no_files"}

C10_EmptyScanEndsIdle ==
    [][ /\ \A w \in Workers :
             /\ ( /\ wk[w].pc = "start" /\ wk'[w].pc # "start"
                  /\ ffmpeg_available
                  /\ find_caf_files(selected_directory) = <<>> )
                => /\ wk'[w].pc = "finally"
                   /\ wk'[w].box \in InfoBoxes
                   /\ wk'[w].attempted = 0 /\ wk'[w].calls = 0
                   /\ ~wk'[w].logged_complete
                   /\ fs' = fs
             /\ (wk[w].pc = "finally" /\ wk'[w].pc = "done")
                => (~conversion_running' /\ btn_text' = "START CONVERSION")
        /\ \A v \in Workers :
             /\ ( /\ wv[v].pc = "start" /\ wv'[v].pc # "start"
                  /\ (include_subdirs \/ DirExists(folder_path))
                  /\ Filter32(find_wav_files(folder_path, include_subdirs)) = <<>> )
                => /\ wv'[v].pc = "finally"
                   /\ wv'[v].box \in InfoBoxes
                   /\ wv'[v].current_conversion = 0
                   /\ fs' = fs
             /\ (wv[v].pc = "finally" /\ wv'[v].pc = "done")
                => (~is_processing' /\ wav_btn_state' = "normal") ]_vars

\* A CAF worker that scanned an existing directory holding no .caf file.
C10_Witness ==
    \E w \in Workers :
        /\ wk[w].pc = "finally"
        /\ wk[w].box = "info_nofiles"
        /\ wk[w].attempted = 0
        /\ selected_directory = SRC
        /\ find_caf_files(SRC) = <<>>

\* ---------------------------------------------------------------------------
\* C11: a failed job does not end the batch.  In conversion_thread a job that
\* ends as an error leaves the worker at the loop's head on the next file,
\* and from there, while the running flag is set and a file is left, the
\* next job is attempted.  In process_files a failed 24-bit conversion leaves
\* the worker at the 16-bit step of the same file, a ticked 16-bit step
\* always makes its conversion, and a failed 16-bit conversion moves on to
\* the next file (or to the summary after the last one).
C11_FailedJobDoesNotAbortBatch ==
    [][ /\ \A w \in Workers :
             /\ (wk'[w].error_count = wk[w].error_count + 1)
                => /\ wk'[w].pc = "poll"
                   /\ wk'[w].i = wk[w].i + 1
                   /\ wk'[w].caf_files = wk[w].caf_files
             /\ ( /\ wk[w].pc = "poll" /\ wk'[w].pc # "poll"
                  /\ wk[w].error_count > 0
                  /\ conversion_running
                  /\ wk[w].i < Len(wk[w].caf_files) )
                => /\ wk'[w].pc = "job"
                   /\ wk'[w].attempted = wk[w].attempted + 1
        /\ \A v \in Workers :
             /\ (wv[v].pc = "t24" /\ wv'[v].failed = wv[v].failed + 1)
                => (wv'[v].pc = "t16" /\ wv'[v].j = wv[v].j)
             /\ (wv[v].pc = "t16" /\ wv'[v].pc # "t16" /\ convert_to_16bit)
                => wv'[v].current_conversion = wv[v].current_conversion + 1
             /\ (wv[v].pc = "t16" /\ wv'[v].failed = wv[v].failed + 1)
                => /\ wv'[v].j = wv[v].j + 1
                   /\ wv'[v].pc = IF wv'[v].j = Len(wv[v].files_32bit)
                                  THEN "summary" ELSE "t24" ]_vars

\* The first of two jobs failed and the second is being attempted.
C11_Witness ==
    \E w \in Workers :
        /\ wk[w].pc = "job"
        /\ wk[w].error_count = 1
        /\ wk[w].i = 1
        /\ wk[w].attempted = 2

\* ---------------------------------------------------------------------------
\* C12 as stated: whatever raises while a job is processed, the job ends at
\* the loop's head with exactly one outcome counted and the next file in
\* turn.
C12_JobExceptionCaughtAtJobBoundary ==
    [][ \A w \in Workers :
          ( /\ wk[w].pc \in {"job", "launch", "ffmpeg"}
            /\ wk'[w].pc \notin {"job", "launch", "ffmpeg"} )
          => /\ wk'[w].pc = "poll"
             /\ wk'[w].i = wk[w].i + 1
             /\ Counted(wk'[w]) = Counted(wk[w]) + 1 ]_vars

\* ---------------------------------------------------------------------------
\* C13 as stated: the files one scan found (all distinct) have pairwise
\* distinct destinations, with the output directory set and unset.
C13_DestinationsUnique ==
    \A w \in Workers :
        \A a, b \in 1..Len(wk[w].caf_files) :
            a # b =>
                \A out \in {None, OUT} :
                    Resolve(PlanWavPath(wk[w].caf_files[a], out))
                        # Resolve(PlanWavPath(wk[w].caf_files[b], out))

\* ---------------------------------------------------------------------------
\* C14: with overwriting off, a run that follows a finished run converts no
\* file again.  A job whose destination was written by a conversion ends at
\* the pre-flight check as skipped, without a write; and no job at all ends
\* as a success over a destination that exists unless its ffmpeg command
\* carried -y (overwriting was on when the command was built).
C14_SecondRunSkipsConverted ==
    [][ \A w \in Workers :
          /\ ( /\ wk[w].pc = "job" /\ wk'[w].pc # "job"
               /\ \E v \in Workers : v < w /\ wk[v].pc = "done"
               /\ ~overwrite_var
               /\ LET d == Resolve(PlanWavPath(CurrentCaf(wk[w]), output_directory))
                  IN d \in DOMAIN fs /\ fs[d].gen = "new" )
             => /\ wk'[w].pc = "poll"
                /\ wk'[w].skipped_count = wk[w].skipped_count + 1
                /\ wk'[w].converted_count = wk[w].converted_count
                /\ wk'[w].calls = wk[w].calls
                /\ fs' = fs
          /\ ( /\ wk'[w].converted_count = wk[w].converted_count + 1
               /\ Exists(wk[w].wav_path) )
             => wk[w].flag = "-y" ]_vars

\* The second run, after the first has ended, has skipped its first file,
\* whose destination the first run wrote.
C14_Witness ==
    /\ wk[1].pc = "done"
    /\ wk[2].pc = "poll"
    /\ wk[2].i = 1
    /\ wk[2].skipped_count = 1
    /\ wk[2].converted_count = 0
    /\ wk[2].calls = 0
    /\ ~overwrite_var
    /\ LET d == Resolve(PlanWavPath(wk[2].caf_files[1], output_directory))
       IN d \in DOMAIN fs /\ fs[d].gen = "new"

\* ---------------------------------------------------------------------------
\* C15 as stated: the scan of process_files queues exactly the files whose
\* subtype is a 32-bit one, in scan order, and counts no error for the
\* others; and a run that reaches its summary has made (32-bit files) x
\* (selected targets) conversions, the targets being those selected when the
\* run computed its total or, read the other way, those selected now.
Is32BitKind(kind) == kind \in {"PCM_32", "FLOAT"}

SelectedTargets ==
    (IF convert_to_24bit THEN 1 ELSE 0) + (IF convert_to_16bit THEN 1 ELSE 0)

C15_JobsAreFilesTimesTargets ==
    [][ \A v \in Workers :
          /\ (wv[v].pc = "start" /\ wv'[v].pc = "t24")
             => /\ LET Is32(p) == Is32BitKind(fs[p].kind)
                   IN wv'[v].files_32bit =
                        SelectSeq(find_wav_files(folder_path, include_subdirs), Is32)
                /\ wv'[v].total_conversions = Len(wv'[v].files_32bit) * SelectedTargets
                /\ wv'[v].failed = 0
          /\ (wv[v].pc # "summary" /\ wv'[v].pc = "summary")
             => \/ wv'[v].current_conversion = wv'[v].total_conversions
                \/ wv'[v].current_conversion = Len(wv'[v].files_32bit) * SelectedTargets ]_vars

\* ---------------------------------------------------------------------------
\* C16: the destination is a function of the source directory, the source
\* file and the output directory.  For a file under the source directory,
\* convert_caf_to_wav plans, with an output directory, that directory
\* followed by the file's directories below the source directory, the file's
\* stem and the extension wav; with none, the file's own directory, stem and
\* wav; and the job uses that plan.  process_files writes only to the
\* file's directory followed by 24bit (16bit) under the file's own name, and
\* the command-line program only to the file's directory followed by
\* 32bit_wav, the file's stem and wav.
ChangedPaths == {p \in DOMAIN fs' : p \notin DOMAIN fs \/ fs'[p] # fs[p]}

C16_DestinationPlan ==
    [][ /\ \A k \in DOMAIN CafWalkOrder :
             LET caf == CafWalkOrder[k]
                 below == SubSeq(caf.dir, Len(selected_directory) + 1, Len(caf.dir))
             IN (selected_directory # None /\ IsUnder(caf, selected_directory))
                => /\ PlanWavPath(caf, OUT) = Path(OUT \o below, caf.stem, "wav")
                   /\ PlanWavPath(caf, None) = Path(caf.dir, caf.stem, "wav")
        /\ \A w \in Workers :
             (wk[w].pc = "job" /\ wk'[w].pc = "launch")
                => wk'[w].wav_path = PlanWavPath(CurrentCaf(wk[w]), output_directory)
        /\ \A v \in Workers :
             LET src == wv[v].files_32bit[wv[v].j + 1]
             IN /\ (wv[v].pc = "t24" /\ wv'[v].pc # "t24")
                   => ChangedPaths \subseteq {Path(src.dir \o <<"24bit">>, src.stem, src.ext)}
                /\ (wv[v].pc = "t16" /\ wv'[v].pc # "t16")
                   => ChangedPaths \subseteq {Path(src.dir \o <<"16bit">>, src.stem, src.ext)}
        /\ (cl.pc = "loop" /\ cl'.i = cl.i + 1)
             => LET caf == cl.caf_files[cl.i + 1]
                IN ChangedPaths \subseteq {Path(caf.dir \o <<"32bit_wav">>, caf.stem, "wav")} ]_vars

\* A job for src/a/x.caf with the output directory set plans out/a/x.wav.
C16_Witness ==
    \E w \in Workers :
        /\ wk[w].pc = "launch"
        /\ wk[w].caf_files[wk[w].i + 1] = Path(SRC \o <<"a">>, "x", "caf")
        /\ selected_directory = SRC
        /\ wk[w].wav_path = Path(OUT \o <<"a">>, "x", "wav")

WalkIndex(p) == CHOOSE k \in DOMAIN CafWalkOrder : CafWalkOrder[k] = p

InLoop(r) == r.pc \in {"poll", "job", "launch", "ffmpeg"}

C18_DiscoveryOrderConsecutiveIndexes ==
    [][ \A w \in Workers :
          /\ (wk[w].pc = "start" /\ wk'[w].pc = "poll")
             => /\ wk'[w].i = 0
                /\ \A a, b \in DOMAIN wk'[w].caf_files :
                      a < b => WalkIndex(wk'[w].caf_files[a]) < WalkIndex(wk'[w].caf_files[b])
          /\ (InLoop(wk[w]) /\ wk'[w].pc # "done")
             => wk'[w].caf_files = wk[w].caf_files
          /\ (wk[w].pc = "poll" /\ wk'[w].pc = "job")
             => /\ wk'[w].i = wk[w].i
                /\ wk'[w].attempted = wk[w].i + 1
                /\ wk'[w].attempted <= Len(wk[w].caf_files)
          /\ (wk[w].pc \in {"job", "launch"} /\ wk'[w].pc \in {"launch", "ffmpeg"})
             => wk'[w].i = wk[w].i
          /\ (wk[w].pc \in {"job", "ffmpeg"} /\ wk'[w].pc = "poll")
             => wk'[w].i = wk[w].i + 1 ]_vars

\* The second job of a run is the second file os.walk met.
C18_Witness ==
    \E w \in Workers :
        /\ wk[w].pc = "job"
        /\ wk[w].caf_files = <<CafWalkOrder[1], CafWalkOrder[3]>>
        /\ wk[w].i = 1
        /\ wk[w].attempted = 2

\* ---------------------------------------------------------------------------
\* C19 as stated, in two consequences.  In a session's only run of
\* conversion_thread, a job whose destination exists when its ffmpeg command
\* is built has passed the pre-flight check over that destination, so
\* overwriting was on for the run and the command carries -y.  In
\* process_files, a run that reaches its summary has made the number of
\* conversions it computed at its start.
C19_ConfigurationFixedDuringRun ==
    [][ /\ \A w \in Workers :
             ( /\ wk[w].pc = "launch" /\ wk'[w].pc = "ffmpeg"
               /\ \A u \in Workers \ {w} : wk[u].pc = "idle"
               /\ Exists(wk[w].wav_path) )
             => wk'[w].flag = "-y"
        /\ \A v \in Workers :
             (wv[v].pc # "summary" /\ wv'[v].pc = "summary")
             => wv'[v].current_conversion = wv'[v].total_conversions ]_vars

\* ---------------------------------------------------------------------------
\* C20: every job of conversion_thread that ends increments exactly one of
\* the three counters, by one.  Exit code 0 of ffmpeg is a success (and only
\* an ffmpeg run gives a success); ffmpeg's refusal of an existing
\* destination under -n is a skip, not an error; any other failure of
\* ffmpeg, an exception, and an encoder that is not available are errors.
C20_OutcomeClassification ==
    [][ /\ Classify(FfmpegStatus("ok")) = "converted"
        /\ Classify(FfmpegStatus("exists")) = "skipped"
        /\ Classify(FfmpegStatus("fail")) = "error"
        /\ Classify(FfmpegStatus("raise")) = "error"
        /\ Classify("error: FFmpeg not available") = "error"
        /\ \A w \in Workers :
             (wk[w].pc \in {"job", "ffmpeg"} /\ wk'[w].pc = "poll")
             => LET dc == wk'[w].converted_count - wk[w].converted_count
                    ds == wk'[w].skipped_count - wk[w].skipped_count
                    de == wk'[w].error_count - wk[w].error_count
                IN /\ {dc, ds, de} \subseteq {0, 1}
                   /\ dc + ds + de = 1
                   /\ dc = 1 => wk[w].pc = "ffmpeg"
                   /\ fs' # fs => dc = 1
                   /\ (wk[w].pc = "ffmpeg" /\ wk[w].flag = "-n" /\ Exists(wk[w].wav_path))
                         => ds = 1
                   /\ (wk[w].pc = "ffmpeg" /\ ds = 1)
                         => (wk[w].flag = "-n" /\ Exists(wk[w].wav_path)) ]_vars

\* A job that reached ffmpeg and was refused by it (-n, destination present)
\* has been counted as skipped.
C20_Witness ==
    \E w \in Workers :
        /\ wk[w].pc = "poll"
        /\ wk[w].i = 1
        /\ wk[w].calls = 1
        /\ wk[w].skipped_count = 1
        /\ wk[w].error_count = 0

\* ---------------------------------------------------------------------------
\* C21: a call of start_conversion while is_processing is set changes
\* nothing of the run (no worker, no flag, no button, no file); at most one
\* process_files worker is alive at any time, before and after every step,
\* and the flag is set exactly while one is.
LiveWav == {v \in Workers : wv[v].pc \notin {"idle", "done"}}

C21_OneWavWorker ==
    [][ /\ Cardinality(LiveWav) <= 1
        /\ Cardinality(LiveWav') <= 1
        /\ is_processing' <=> (LiveWav' # {})
        /\ (prog = "wav_gui" /\ is_processing /\ clicks' = clicks + 1)
             => UNCHANGED <<wv, is_processing, wav_btn_state, wav_box, fs>> ]_vars

\* A start was requested during a run: two requests so far, one worker, in
\* its conversion loop.
C21_Witness ==
    /\ prog = "wav_gui"
    /\ is_processing
    /\ clicks = 2
    /\ wv[1].pc \in {"t24", "t16"}
    /\ wv[2].pc = "idle"

\* ---------------------------------------------------------------------------
\* C22: whenever a worker of either GUI has been started, whatever becomes
\* of its run, a state follows in which every worker started so far, that
\* one included, has left its finally block: no thread is alive, the running
\* flags are false and the buttons offer a start again.
AllRunsOver ==
    /\ \A w \in Workers : wk[w].pc \in {"idle", "done"} /\ wv[w].pc \in {"idle", "done"}
    /\ ~conversion_running /\ btn_text = "START CONVERSION"
    /\ ~is_processing /\ wav_btn_state = "normal"

C23_StopsEarlyOnlyOnOwnCancel ==
    [][ \A w \in Workers :
          /\ ( /\ wk[w].pc = "finally" /\ wk'[w].pc = "done"
               /\ \E v \in Workers : v > w /\ InRun(wk[v]) )
             => conversion_running' = conversion_running
          /\ (~wk[w].logged_cancelled /\ wk'[w].logged_cancelled)
             => wk[w].cancel_req ]_vars

\* ---------------------------------------------------------------------------
\* C24 as stated: the destination of a conversion process_files makes is
\* never one of the files in the run's list of 32-bit sources.
QueuedSources(v) == {wv[v].files_32bit[k] : k \in DOMAIN wv[v].files_32bit}

C24_DestinationNeverQueuedSource ==
    [][ \A v \in Workers :
          /\ ( /\ wv[v].pc = "t24"
               /\ wv'[v].current_conversion = wv[v].current_conversion + 1 )
             => WavOutputPath(wv[v].files_32bit[wv[v].j + 1], "24bit") \notin QueuedSources(v)
          /\ ( /\ wv[v].pc = "t16"
               /\ wv'[v].current_conversion = wv[v].current_conversion + 1 )
             => WavOutputPath(wv[v].files_32bit[wv[v].j + 1], "16bit") \notin QueuedSources(v) ]_vars

====
